---- MODULE Spec2Model ----
(***************************************************************************)
(* Model of app.py: the synthetic data generator, the trend fetcher with   *)
(* its three-window fallback chain, the shared rate-limit timestamp and    *)
(* the request handlers (index, test_endpoint, analyze) run by concurrent  *)
(* worker threads of the Flask server.                                     *)
(*                                                                         *)
(* Time is counted in whole seconds.  Strings that the code inspects       *)
(* character by character (the keyword, column names) are sequences of     *)
(* one-character strings; labels and messages are plain strings.           *)
(***************************************************************************)
EXTENDS Integers, Sequences, FiniteSets, TLC

\* ------------------------------------------------------------------ bounds
\* The worker threads of the server (app.run serves each request on a thread).
Workers == {1, 2}
\* Value of the clock when the server starts (any value >= Interval behaves
\* like the real epoch clock: the first request never waits).
StartTime == 10
\* New requests are accepted while fewer than Horizon seconds have passed
\* (RaceHorizon when requests overlap).
Horizon == 8
RaceHorizon == 3
\* The clock is observed every Quantum seconds.
Quantum == 5
\* Seeds of the pseudo-random stream read by random.randint are 0..MaxSeed.
MaxSeed == 1

\* --------------------------------------------------------- program constants
Interval == 10
MinValue == 10
DemoDays == 90
SecondsPerDay == 86400

base_trend == <<50, 55, 60, 65, 70, 75, 80, 85, 90, 85, 80, 75, 70, 65, 60>>
timeframes == <<"now 7-d", "today 1-m", "today 3-m">>
DemoLabel == "demo (last 3 months)"
DateCol == <<"d", "a", "t", "e">>

Max(a, b) == IF a >= b THEN a ELSE b

\* ------------------------------------------------------------------ strings
IsSpace(c) == c = " "

RECURSIVE LStrip(_)
LStrip(s) ==
  IF s # <<>> /\ IsSpace(Head(s)) THEN LStrip(Tail(s)) ELSE s

RECURSIVE RStrip(_)
RStrip(s) ==
  IF s # <<>> /\ IsSpace(s[Len(s)]) THEN RStrip(SubSeq(s, 1, Len(s) - 1)) ELSE s

\* Mutant of Strip: the keyword is used as posted.
StripNothing(s) == s

\* str.strip()
Strip(s) == RStrip(LStrip(s))

\* --------------------------------------------------------------- data frames
\* A frame is [name, index, cols]: the index's name, the index values and the
\* columns, a function from column names to sequences of values.
NoName == <<>>
Columns(df) == DOMAIN df.cols
NRows(df) == Len(df.index)
\* DataFrame.empty: any axis has length 0
Empty(df) == NRows(df) = 0 \/ Columns(df) = {}

\* pd.DataFrame() as the provider returns it when it has nothing
EmptyFrame == [name |-> NoName, index |-> <<>>, cols |-> <<>>]

\* The dict literal {k1: v1, k2: v2}: a later equal key replaces the earlier.
DictLiteral(k1, v1, k2, v2) == (k2 :> v2) @@ (k1 :> v1)

\* pd.DataFrame(dict of equal-length lists): a RangeIndex and one column per key
DataFrame(d) ==
  LET n == Len(d[CHOOSE k \in DOMAIN d : TRUE])
  IN  [name |-> NoName, index |-> [i \in 1..n |-> i - 1], cols |-> d]

\* DataFrame.set_index(col): the column becomes the index and leaves the columns
SetIndex(df, col) ==
  [name |-> col,
   index |-> df.cols[col],
   cols |-> [c \in Columns(df) \ {col} |-> df.cols[c]]]

\* Series.sum()
RECURSIVE SumSeq(_)
SumSeq(s) == IF s = <<>> THEN 0 ELSE Head(s) + SumSeq(Tail(s))

\* DataFrame.tail(n)
TailRows(df, n) ==
  LET m == NRows(df)
      from == IF m > n THEN m - n + 1 ELSE 1
  IN  [df EXCEPT !.index = SubSeq(df.index, from, m),
                 !.cols = [c \in Columns(df) |-> SubSeq(df.cols[c], from, m)]]

\* Timestamp.date() / strftime("%Y-%m-%d"): the calendar day of a timestamp
DateOf(t) == t \div SecondsPerDay

\* ------------------------------------------------------- generate_demo_data
\* random.randint(-10, 10): the i-th draw of the stream with the given seed
RandInt(seed, i) == ((seed * 7 + i * (seed + 1)) % 21) - 10

\* pd.date_range(start, end, freq='D')
DateRange(start, end) ==
  [i \in 1..((end - start) \div SecondsPerDay) + 1 |-> start + (i - 1) * SecondsPerDay]

DemoValue(seed, i) ==
  Max(MinValue, base_trend[((i - 1) % Len(base_trend)) + 1] + RandInt(seed, i))

\* (Each intermediate value is bound by a singleton quantifier, which makes
\* it be computed once, as the assignment to a local does.)
generate_demo_data(keyword, now, seed) ==
  LET end_date == now
      start_date == end_date - DemoDays * SecondsPerDay
  IN  CHOOSE result \in
        { SetIndex(data, DateCol) :
            data \in
              { DataFrame(DictLiteral(DateCol, dates, keyword, values)) :
                  <<dates, values>> \in
                    { <<d, [i \in 1..Len(d) |-> DemoValue(seed, i)]>> :
                        d \in {DateRange(start_date, end_date)} } } } : TRUE

\* ---------------------------------------------------------------- provider
\* What one window query of the external provider does.
Behaviours == {"raise", "empty", "nocol", "zero", "ok"}
\* A provider run: whether TrendReq(...) can be constructed and what each of
\* the three window queries does.
Providers == [construct : BOOLEAN, windows : [1..3 -> Behaviours]]

OtherCol == <<"i", "s", "P", "a", "r", "t", "i", "a", "l">>

\* The frame interest_over_time() returns for window i (index named 'date').
ProviderFrame(beh, keyword, now, i) ==
  LET idx == <<now - 2 * SecondsPerDay, now - SecondsPerDay, now>>
  IN  CASE beh = "empty" -> EmptyFrame
        [] beh = "nocol" -> [name |-> DateCol, index |-> idx,
                             cols |-> (OtherCol :> <<0, 0, 0>>)]
        [] beh = "zero"  -> [name |-> DateCol, index |-> idx,
                             cols |-> (keyword :> <<0, 0, 0>>) @@ (OtherCol :> <<0, 0, 0>>)]
        [] OTHER         -> [name |-> DateCol, index |-> idx,
                             cols |-> (keyword :> <<0, 40 + i, 100>>) @@ (OtherCol :> <<0, 0, 0>>)]

\* ----------------------------------------------------------- get_trends_data
\* The value of `data` where the code has not assigned it.
NoFrame == EmptyFrame

\* Mutant of Acceptable: the sum of the series is not looked at.
AcceptableAnySum(data, keyword) ==
  /\ ~Empty(data)
  /\ keyword \in Columns(data)

\* line 60
Acceptable(data, keyword) ==
  /\ ~Empty(data)
  /\ keyword \in Columns(data)
  /\ SumSeq(data.cols[keyword]) > 0

\* lines 56-58: build_payload and interest_over_time for window i
QueryWindow(keyword, prov, now, i) ==
  IF prov.windows[i] = "raise"
  THEN [exc |-> TRUE, data |-> NoFrame]
  ELSE [exc |-> FALSE, data |-> ProviderFrame(prov.windows[i], keyword, now, i)]

Fallback(keyword, now, seed, queried) ==
  [exc |-> FALSE, data |-> generate_demo_data(keyword, now, seed),
   timeframe |-> DemoLabel, real |-> FALSE, queried |-> queried]

\* Mutant of TryTimeframes: a window that raises ends the loop.
RECURSIVE TryTimeframesAbort(_, _, _, _, _, _)
TryTimeframesAbort(keyword, prov, now, seed, i, queried) ==
  IF i > Len(timeframes)
  THEN Fallback(keyword, now, seed, queried)
  ELSE LET q == QueryWindow(keyword, prov, now, i)
           asked == Append(queried, timeframes[i])
       IN  IF q.exc
           THEN Fallback(keyword, now, seed, asked)
           ELSE IF Acceptable(q.data, keyword)
                THEN [exc |-> FALSE, data |-> q.data, timeframe |-> timeframes[i],
                      real |-> TRUE, queried |-> asked]
                ELSE TryTimeframesAbort(keyword, prov, now, seed, i + 1, asked)

\* lines 54-70: the loop over the timeframes from position i on
RECURSIVE TryTimeframes(_, _, _, _, _, _)
TryTimeframes(keyword, prov, now, seed, i, queried) ==
  IF i > Len(timeframes)
  THEN Fallback(keyword, now, seed, queried)
  ELSE LET q == QueryWindow(keyword, prov, now, i)
           asked == Append(queried, timeframes[i])
       IN  IF q.exc
           THEN TryTimeframes(keyword, prov, now, seed, i + 1, asked)
           ELSE IF Acceptable(q.data, keyword)
                THEN [exc |-> FALSE, data |-> q.data, timeframe |-> timeframes[i],
                      real |-> TRUE, queried |-> asked]
                ELSE TryTimeframes(keyword, prov, now, seed, i + 1, asked)

\* lines 47-70: the body of the outer try
TrendsBody(keyword, prov, now, seed) ==
  IF ~prov.construct
  THEN [exc |-> TRUE, data |-> NoFrame, timeframe |-> "", real |-> FALSE,
        queried |-> <<>>]
  ELSE TryTimeframes(keyword, prov, now, seed, 1, <<>>)

\* lines 47-76: the outer try and its except clause
get_trends_data(keyword, prov, now, seed) ==
  CHOOSE result \in
    { IF r.exc THEN Fallback(keyword, now, seed, r.queried) ELSE r :
        r \in {TrendsBody(keyword, prov, now, seed)} } : TRUE

\* ------------------------------------------------------------------- state
VARIABLES
  clock,              \* time.time(), in seconds
  last_request_time,  \* the global of line 16
  chart,              \* static/chart.png: what the last savefig wrote
  pc,                 \* per worker: where its handler stands
  req,                \* per worker: the request it serves
  current_time,       \* per worker: the local of lines 92 / 189
  wait_time,          \* per worker: the local of lines 96 / 193
  wake_at,            \* per worker: when its time.sleep returns
  fetch_start,        \* per worker: when it called get_trends_data
  fetched,            \* per worker: what its pipeline saw (data, is_real_data, exception)
  resp,               \* per worker: the response it returned
  fin,                \* a direct call of the fetcher or the generator: its arguments
  fout                \* ... and its result

vars == <<clock, last_request_time, chart, pc, req, current_time, wait_time,
          wake_at, fetch_start, fetched, resp, fin, fout>>

handlerVars == <<clock, last_request_time, chart, pc, req, current_time, wait_time,
                 wake_at, fetch_start, fetched, resp>>

NoTime == 0 - 1
Seeds == 0..MaxSeed
RawKeywords == {<<>>, <<" ", " ">>, <<" ", "p", "y">>, DateCol}
NoChart == [written |-> FALSE, keyword |-> <<>>, real |-> FALSE]

NoBody == [kind |-> "none", dates |-> <<>>, values |-> <<>>, timeframe_used |-> "",
           keyword |-> <<>>, is_demo_data |-> FALSE]
NoResp == [status |-> 0, error |-> "", body |-> NoBody]
NoRequest == [handler |-> "none", keyword |-> <<>>]
NoFetched == [called |-> FALSE, empty |-> FALSE, hascol |-> FALSE, rows |-> 0,
              real |-> FALSE, exc |-> "none", charted |-> FALSE]

\* What the pipeline saw: the locals data and is_real_data, and how it ended.
Fetched(r, keyword, exc, charted) ==
  [called |-> TRUE, empty |-> Empty(r.data), hascol |-> keyword \in Columns(r.data),
   rows |-> NRows(r.data), real |-> r.real, exc |-> exc, charted |-> charted]

NoCall == [op |-> "none", keyword |-> <<>>,
           prov |-> [construct |-> FALSE, windows |-> [i \in 1..3 |-> "raise"]],
           now |-> 0, seed |-> 0]
NoResult == [done |-> FALSE, exc |-> FALSE, data |-> NoFrame, timeframe |-> "",
             real |-> FALSE, queried |-> <<>>]

Init ==
  /\ clock = StartTime
  /\ last_request_time = 0
  /\ chart = NoChart
  /\ pc = [w \in Workers |-> "idle"]
  /\ req = [w \in Workers |-> NoRequest]
  /\ current_time = [w \in Workers |-> NoTime]
  /\ wait_time = [w \in Workers |-> 0]
  /\ wake_at = [w \in Workers |-> NoTime]
  /\ fetch_start = [w \in Workers |-> NoTime]
  /\ fetched = [w \in Workers |-> NoFetched]
  /\ resp = [w \in Workers |-> NoResp]
  /\ fin = NoCall
  /\ fout = NoResult

\* request.form.get("keyword", "").strip()
Keyword(w) == Strip(req[w].keyword)

\* lines 88 / 185: `not keyword`
Missing(keyword) == keyword = <<>>

\* ---------------------------------------------------------------- responses
MsgEnterKeywordPage == "Please enter a keyword to search."
MsgEnterKeyword == "Please enter a keyword"
MsgNoData == "No trend data found"
MsgProcessing == "Error processing your request"
MsgServer == "Server error"

\* render_template("index.html", results=results, error=error)
PageResp(error, body) == [status |-> 200, error |-> error, body |-> body]
\* jsonify(...), status
JsonResp(status, error, body) == [status |-> status, error |-> error, body |-> body]

\* lines 104 / 199 (get_trends_data never returns None)
HasData(data, keyword) == ~Empty(data) /\ keyword \in Columns(data)

\* DataFrame.reset_index(): the index becomes a column of its name, and the
\* call raises ValueError when a column of that name exists already.
ResetIndexRaises(df) == df.name \in Columns(df)

\* lines 128-152: the table of the most recent 10 points, with the demo notice
TableBody(data, keyword, is_demo_data) ==
  LET recent == TailRows(data, 10)
  IN  [kind |-> "table",
       dates |-> [i \in 1..NRows(recent) |-> DateOf(recent.index[i])],
       values |-> recent.cols[keyword],
       timeframe_used |-> "",
       keyword |-> keyword,
       is_demo_data |-> is_demo_data]

\* Mutant of JsonBody: is_demo_data carries is_real_data.
JsonBodyRealFlag(data, keyword, timeframe_used, is_real_data) ==
  [kind |-> "json",
   dates |-> [i \in 1..NRows(data) |-> DateOf(data.index[i])],
   values |-> [i \in 1..Len(data.cols[keyword]) |-> data.cols[keyword][i]],
   timeframe_used |-> timeframe_used,
   keyword |-> keyword,
   is_demo_data |-> is_real_data]

\* lines 219-225
JsonBody(data, keyword, timeframe_used, is_real_data) ==
  [kind |-> "json",
   dates |-> [i \in 1..NRows(data) |-> DateOf(data.index[i])],
   values |-> [i \in 1..Len(data.cols[keyword]) |-> data.cols[keyword][i]],
   timeframe_used |-> timeframe_used,
   keyword |-> keyword,
   is_demo_data |-> ~is_real_data]

\* --------------------------------------------------------------- the clock
Sleeping(w) == pc[w] = "sleep" /\ wake_at[w] > clock

\* Time passes.  The clock stops once no new request is accepted and no
\* worker is waiting for it.
Tick(until) ==
  /\ clock < until \/ \E w \in Workers : Sleeping(w)
  /\ clock' = clock + Quantum
  /\ UNCHANGED <<last_request_time, chart, pc, req, current_time, wait_time,
                 wake_at, fetch_start, fetched, resp, fin, fout>>

\* ---------------------------------------------------------------- handlers
Accepting(w, until) == pc[w] = "idle" /\ clock < until

ClearLocals(w) ==
  /\ current_time' = [current_time EXCEPT ![w] = NoTime]
  /\ wait_time' = [wait_time EXCEPT ![w] = 0]
  /\ wake_at' = [wake_at EXCEPT ![w] = NoTime]
  /\ fetch_start' = [fetch_start EXCEPT ![w] = NoTime]

\* GET /: lines 81-85, 170
IndexGet(w, until) ==
  /\ Accepting(w, until)
  /\ req' = [req EXCEPT ![w] = [handler |-> "index_get", keyword |-> <<>>]]
  /\ resp' = [resp EXCEPT ![w] = PageResp("", NoBody)]
  /\ pc' = [pc EXCEPT ![w] = "done"]
  /\ fetched' = [fetched EXCEPT ![w] = NoFetched]
  /\ ClearLocals(w)
  /\ UNCHANGED <<clock, last_request_time, chart, fin, fout>>

\* GET /test
test_endpoint(w, until) ==
  /\ Accepting(w, until)
  /\ req' = [req EXCEPT ![w] = [handler |-> "test", keyword |-> <<>>]]
  /\ resp' = [resp EXCEPT ![w] =
                JsonResp(200, "", [NoBody EXCEPT !.kind = "test",
                                                 !.timeframe_used = "success"])]
  /\ pc' = [pc EXCEPT ![w] = "done"]
  /\ fetched' = [fetched EXCEPT ![w] = NoFetched]
  /\ ClearLocals(w)
  /\ UNCHANGED <<clock, last_request_time, chart, fin, fout>>

\* The response to a request whose keyword is missing (lines 88-89, 185-186)
Rejection(handler) ==
  IF handler = "index"
  THEN PageResp(MsgEnterKeywordPage, NoBody)
  ELSE JsonResp(400, MsgEnterKeyword, NoBody)

\* POST / and POST /analyze up to the clock reading: lines 85-92, 183-189
Receive(w, handler, raw, until) ==
  /\ Accepting(w, until)
  /\ req' = [req EXCEPT ![w] = [handler |-> handler, keyword |-> raw]]
  /\ fetched' = [fetched EXCEPT ![w] = NoFetched]
  /\ wait_time' = [wait_time EXCEPT ![w] = 0]
  /\ wake_at' = [wake_at EXCEPT ![w] = NoTime]
  /\ fetch_start' = [fetch_start EXCEPT ![w] = NoTime]
  /\ IF Missing(Strip(raw))
     THEN /\ resp' = [resp EXCEPT ![w] = Rejection(handler)]
          /\ pc' = [pc EXCEPT ![w] = "done"]
          /\ current_time' = [current_time EXCEPT ![w] = NoTime]
     ELSE /\ resp' = [resp EXCEPT ![w] = NoResp]
          /\ pc' = [pc EXCEPT ![w] = "check"]
          /\ current_time' = [current_time EXCEPT ![w] = clock]
  /\ UNCHANGED <<clock, last_request_time, chart, fin, fout>>

\* Mutant of RateCheck: the check is taken under a lock held until the
\* timestamp is written.
RateCheckLocked(w) ==
  /\ pc[w] = "check"
  /\ \A v \in Workers \ {w} : pc[v] \notin {"wait", "sleep", "fetching"}
  /\ IF current_time[w] - last_request_time < Interval
     THEN /\ pc' = [pc EXCEPT ![w] = "wait"]
          /\ UNCHANGED fetch_start
     ELSE /\ pc' = [pc EXCEPT ![w] = "fetching"]
          /\ fetch_start' = [fetch_start EXCEPT ![w] = clock]
  /\ UNCHANGED <<clock, last_request_time, chart, req, current_time, wait_time,
                 wake_at, fetched, resp, fin, fout>>

\* lines 95 / 192: the comparison against the shared timestamp
RateCheck(w) ==
  /\ pc[w] = "check"
  /\ IF current_time[w] - last_request_time < Interval
     THEN /\ pc' = [pc EXCEPT ![w] = "wait"]
          /\ UNCHANGED fetch_start
     ELSE /\ pc' = [pc EXCEPT ![w] = "fetching"]
          /\ fetch_start' = [fetch_start EXCEPT ![w] = clock]
  /\ UNCHANGED <<clock, last_request_time, chart, req, current_time, wait_time,
                 wake_at, fetched, resp, fin, fout>>

\* lines 96-97 / 193-194: the wait is computed from a second reading of the
\* shared timestamp, and time.sleep(wait_time) begins
BeginSleep(w) ==
  /\ pc[w] = "wait"
  /\ LET wt == Interval - (current_time[w] - last_request_time)
     IN  /\ wait_time' = [wait_time EXCEPT ![w] = wt]
         /\ wake_at' = [wake_at EXCEPT ![w] = clock + wt]
  /\ pc' = [pc EXCEPT ![w] = "sleep"]
  /\ UNCHANGED <<clock, last_request_time, chart, req, current_time,
                 fetch_start, fetched, resp, fin, fout>>

\* Mutant of Wake: the sleep returns at once.
WakeAtOnce(w) ==
  /\ pc[w] = "sleep"
  /\ pc' = [pc EXCEPT ![w] = "fetching"]
  /\ fetch_start' = [fetch_start EXCEPT ![w] = clock]
  /\ UNCHANGED <<clock, last_request_time, chart, req, current_time, wait_time,
                 wake_at, fetched, resp, fin, fout>>

\* time.sleep returns, no earlier than asked, and get_trends_data is called
Wake(w) ==
  /\ pc[w] = "sleep"
  /\ clock >= wake_at[w]
  /\ pc' = [pc EXCEPT ![w] = "fetching"]
  /\ fetch_start' = [fetch_start EXCEPT ![w] = clock]
  /\ UNCHANGED <<clock, last_request_time, chart, req, current_time, wait_time,
                 wake_at, fetched, resp, fin, fout>>

\* The provider runs the handlers are exercised with: one for every way
\* get_trends_data can end (the client cannot be built; every window fails,
\* each in its own way; the first, second or third window is accepted).
HandlerProviders ==
  { [construct |-> FALSE, windows |-> <<"raise", "raise", "raise">>],
    [construct |-> TRUE, windows |-> <<"raise", "raise", "raise">>],
    [construct |-> TRUE, windows |-> <<"empty", "nocol", "zero">>],
    [construct |-> TRUE, windows |-> <<"ok", "raise", "raise">>],
    [construct |-> TRUE, windows |-> <<"zero", "ok", "raise">>],
    [construct |-> TRUE, windows |-> <<"raise", "empty", "ok">>] }

\* The handler returns: the response is fixed and the locals die.
Respond(w, response, seen) ==
  /\ resp' = [resp EXCEPT ![w] = response]
  /\ fetched' = [fetched EXCEPT ![w] = seen]
  /\ pc' = [pc EXCEPT ![w] = "done"]
  /\ ClearLocals(w)

\* index, lines 165-168: the handler's except clause
IndexExcept(w, seen) == Respond(w, PageResp(MsgProcessing, NoBody), seen)

\* Mutant of AnalyzeExcept: the exception leaves the handler and its thread.
AnalyzeExceptUncaught(w, seen) ==
  /\ pc' = [pc EXCEPT ![w] = "crashed"]
  /\ fetched' = [fetched EXCEPT ![w] = seen]
  /\ UNCHANGED resp
  /\ ClearLocals(w)

\* analyze, lines 234-238: the handler's except clause
AnalyzeExcept(w, seen) == Respond(w, JsonResp(500, MsgServer, NoBody), seen)

\* index, lines 101-168: from the return of get_trends_data to the response.
\* render_ok: whether os.makedirs / savefig succeed.
IndexFinish(w, prov, seed, render_ok) ==
  /\ pc[w] = "fetching"
  /\ req[w].handler = "index"
  /\ \E keyword \in {Keyword(w)} :
     \E r \in {get_trends_data(keyword, prov, clock, seed)} :
     LET is_demo_data == ~r.real
     IN  IF HasData(r.data, keyword)
         THEN IF ~render_ok
              THEN /\ IndexExcept(w, Fetched(r, keyword, "render", FALSE))
                   /\ UNCHANGED <<chart, last_request_time>>
              ELSE /\ chart' = [written |-> TRUE, keyword |-> keyword, real |-> r.real]
                   /\ IF ResetIndexRaises(TailRows(r.data, 10))
                      THEN /\ IndexExcept(w, Fetched(r, keyword, "reset_index", TRUE))
                           /\ UNCHANGED last_request_time
                      ELSE /\ Respond(w, PageResp("", TableBody(r.data, keyword, is_demo_data)),
                                      Fetched(r, keyword, "none", TRUE))
                           /\ last_request_time' = clock
         ELSE /\ Respond(w, PageResp(MsgNoData, NoBody), Fetched(r, keyword, "none", FALSE))
              /\ last_request_time' = clock
              /\ UNCHANGED chart
  /\ UNCHANGED <<clock, req, fin, fout>>

\* analyze, lines 197-238: from the return of get_trends_data to the response
AnalyzeFinish(w, prov, seed, render_ok) ==
  /\ pc[w] = "fetching"
  /\ req[w].handler = "analyze"
  /\ \E keyword \in {Keyword(w)} :
     \E r \in {get_trends_data(keyword, prov, clock, seed)} :
         IF HasData(r.data, keyword)
         THEN IF ~render_ok
              THEN /\ AnalyzeExcept(w, Fetched(r, keyword, "render", FALSE))
                   /\ UNCHANGED <<chart, last_request_time>>
              ELSE /\ chart' = [written |-> TRUE, keyword |-> keyword, real |-> r.real]
                   /\ Respond(w, JsonResp(200, "", JsonBody(r.data, keyword, r.timeframe, r.real)),
                              Fetched(r, keyword, "none", TRUE))
                   /\ last_request_time' = clock
         ELSE /\ Respond(w, JsonResp(404, MsgNoData, NoBody),
                         Fetched(r, keyword, "none", FALSE))
              /\ UNCHANGED <<chart, last_request_time>>
  /\ UNCHANGED <<clock, req, fin, fout>>

\* The response has been sent: the worker thread is free again.
Return(w) ==
  /\ pc[w] = "done"
  /\ pc' = [pc EXCEPT ![w] = "idle"]
  /\ req' = [req EXCEPT ![w] = NoRequest]
  /\ resp' = [resp EXCEPT ![w] = NoResp]
  /\ fetched' = [fetched EXCEPT ![w] = NoFetched]
  /\ UNCHANGED <<clock, last_request_time, chart, current_time, wait_time,
                 wake_at, fetch_start, fin, fout>>

\* One step of worker w, its requests drawn from the given keywords and its
\* environment (provider, random stream) from the given sets; requests are
\* accepted until the given time.
index(w, raws, provs, seeds, until) ==
  \/ IndexGet(w, until)
  \/ \E raw \in raws : Receive(w, "index", raw, until)
  \/ \E prov \in provs, seed \in seeds, render_ok \in BOOLEAN :
       IndexFinish(w, prov, seed, render_ok)

analyze(w, raws, provs, seeds, until) ==
  \/ \E raw \in raws : Receive(w, "analyze", raw, until)
  \/ \E prov \in provs, seed \in seeds, render_ok \in BOOLEAN :
       AnalyzeFinish(w, prov, seed, render_ok)

Serve(w, raws, provs, seeds, until) ==
  \/ test_endpoint(w, until)
  \/ index(w, raws, provs, seeds, until)
  \/ analyze(w, raws, provs, seeds, until)
  \/ RateCheck(w)
  \/ BeginSleep(w)
  \/ Wake(w)
  \/ Return(w)

\* ----------------------------------------------------------- specifications
\* Concurrent requests: the workers interleave freely.  The requests carry a
\* missing or a plain keyword and the provider either works or is down.
RaceKeywords == {<<>>, <<" ", "p", "y">>}
RaceProviders ==
  { [construct |-> FALSE, windows |-> <<"raise", "raise", "raise">>],
    [construct |-> TRUE, windows |-> <<"raise", "raise", "raise">>],
    [construct |-> TRUE, windows |-> <<"ok", "raise", "raise">>] }
RaceUntil == StartTime + RaceHorizon

Next ==
  \/ Tick(RaceUntil)
  \/ \E w \in Workers : Serve(w, RaceKeywords, RaceProviders, {0}, RaceUntil)

Spec == Init /\ [][Next]_vars

\* Requests handled one after another: a request is received only when no
\* other worker is busy.  Every keyword, provider run and seed is drawn.
Alone(w) == \A v \in Workers \ {w} : pc[v] = "idle"
SeqUntil == StartTime + Horizon

NextSeq ==
  \/ Tick(SeqUntil)
  \/ \E w \in Workers :
       \/ Alone(w) /\ IndexGet(w, SeqUntil)
       \/ Alone(w) /\ test_endpoint(w, SeqUntil)
       \/ Alone(w) /\ \E raw \in RawKeywords : Receive(w, "index", raw, SeqUntil)
       \/ Alone(w) /\ \E raw \in RawKeywords : Receive(w, "analyze", raw, SeqUntil)
       \/ \E prov \in HandlerProviders, seed \in Seeds, render_ok \in BOOLEAN :
            IndexFinish(w, prov, seed, render_ok)
       \/ \E prov \in HandlerProviders, seed \in Seeds, render_ok \in BOOLEAN :
            AnalyzeFinish(w, prov, seed, render_ok)
       \/ RateCheck(w)
       \/ BeginSleep(w)
       \/ Wake(w)
       \/ Return(w)

SpecSeq == Init /\ [][NextSeq]_vars

\* The same under the scheduling the server gives: time passes, and a thread
\* that can take its next step takes it (the sleep ends, the provider client
\* answers or times out, the response is sent).
Progress(w) ==
  \/ RateCheck(w)
  \/ BeginSleep(w)
  \/ Wake(w)
  \/ \E prov \in RaceProviders, render_ok \in BOOLEAN : IndexFinish(w, prov, 0, render_ok)
  \/ \E prov \in RaceProviders, render_ok \in BOOLEAN : AnalyzeFinish(w, prov, 0, render_ok)
  \/ Return(w)

FairSpec == Spec /\ WF_vars(Tick(RaceUntil)) /\ \A w \in Workers : WF_vars(Progress(w))

\* Direct calls of generate_demo_data and get_trends_data, over every provider
\* run, keyword and seed.
FetchKeywords == {<<"p", "y">>, DateCol}
FetchCalls ==
  [op : {"get_trends_data"}, keyword : FetchKeywords, prov : Providers,
   now : {StartTime}, seed : Seeds]
  \cup
  [op : {"generate_demo_data"}, keyword : FetchKeywords, prov : {NoCall.prov},
   now : {StartTime, StartTime + SecondsPerDay}, seed : Seeds]

InitFetch ==
  /\ clock = StartTime
  /\ last_request_time = 0
  /\ chart = NoChart
  /\ pc = [w \in Workers |-> "idle"]
  /\ req = [w \in Workers |-> NoRequest]
  /\ current_time = [w \in Workers |-> NoTime]
  /\ wait_time = [w \in Workers |-> 0]
  /\ wake_at = [w \in Workers |-> NoTime]
  /\ fetch_start = [w \in Workers |-> NoTime]
  /\ fetched = [w \in Workers |-> NoFetched]
  /\ resp = [w \in Workers |-> NoResp]
  /\ fin \in FetchCalls
  /\ fout = NoResult

CallFetch ==
  /\ fin.op = "get_trends_data"
  /\ ~fout.done
  /\ fout' = [done |-> TRUE] @@ get_trends_data(fin.keyword, fin.prov, fin.now, fin.seed)
  /\ UNCHANGED <<handlerVars, fin>>

CallDemo ==
  /\ fin.op = "generate_demo_data"
  /\ ~fout.done
  /\ fout' = [NoResult EXCEPT !.done = TRUE,
                              !.data = generate_demo_data(fin.keyword, fin.now, fin.seed)]
  /\ UNCHANGED <<handlerVars, fin>>

NextFetch == CallFetch \/ CallDemo

SpecFetch == InitFetch /\ [][NextFetch]_vars

\* ================================================================== claims
Abs(x) == IF x >= 0 THEN x ELSE 0 - x
Busy(w) == pc[w] \in {"check", "wait", "sleep", "fetching"}
\* The raw keyword is empty or consists of whitespace only.
IsBlank(raw) == \A i \in 1..Len(raw) : raw[i] = " "
\* The step in which worker w returns from the pipeline of a validated request.
Finishes(w) == pc[w] = "fetching" /\ pc'[w] = "done"

\* C1: in both handlers, once the fetch attempt of a validated request has
\* completed, last_request_time is set to the current time before the response
\* is returned, whatever the outcome (success, no data, exception).
C1_TimestampAlwaysUpdated ==
  [][\A w \in Workers : Finishes(w) => last_request_time' = clock']_vars

\* C2: with requests handled one after another, every fetch begins at least
\* Interval seconds after the recorded timestamp; the handler sleeps exactly
\* Interval - elapsed when elapsed < Interval and does not sleep otherwise.
C2_FetchSpacedSequential ==
  \A w \in Workers :
    /\ pc[w] = "sleep" =>
         /\ current_time[w] - last_request_time < Interval
         /\ wait_time[w] = Interval - (current_time[w] - last_request_time)
         /\ wake_at[w] >= current_time[w] + wait_time[w]
    /\ pc[w] = "fetching" =>
         /\ fetch_start[w] >= last_request_time + Interval
         /\ fetch_start[w] >= current_time[w] + wait_time[w]
         /\ (wait_time[w] = 0) <=> (current_time[w] - last_request_time >= Interval)

\* C2 witness: a request that found 5 seconds elapsed slept 5 and now fetches.
C2_Witness ==
  \E w \in Workers :
    /\ pc[w] = "fetching"
    /\ wait_time[w] > 0
    /\ wait_time[w] < Interval
    /\ fetch_start[w] = last_request_time + Interval

\* C3: the rate limiter holds no lock: a worker standing at the check, at the
\* wait computation or at the end of its fetch can always take its step,
\* wherever the other workers stand, so two fetches can start less than
\* Interval seconds apart.
C3_NoMutualExclusion ==
  \A w \in Workers :
    /\ pc[w] = "check" => ENABLED RateCheck(w)
    /\ pc[w] = "wait" => ENABLED BeginSleep(w)

\* C3 witness: both workers passed the check before either wrote the
\* timestamp, and their fetches started less than Interval seconds apart.
C3_Witness ==
  \E v, w \in Workers :
    /\ v # w
    /\ pc[v] = "fetching"
    /\ pc[w] = "fetching"
    /\ Abs(fetch_start[v] - fetch_start[w]) < Interval

\* The provider's own classification of a run: no window answers acceptably.
NoneAcceptable(prov) == \A i \in 1..3 : prov.windows[i] # "ok"
FirstAcceptable(prov) ==
  IF NoneAcceptable(prov) THEN 4
  ELSE CHOOSE i \in 1..3 : prov.windows[i] = "ok" /\ \A j \in 1..(i - 1) : prov.windows[j] # "ok"
FetchReturned == fin.op = "get_trends_data" /\ fout.done
DemoReturned == fin.op = "generate_demo_data" /\ fout.done

\* C4: get_trends_data never propagates an error; its result is synthetic,
\* labelled "demo (last 3 months)", exactly when the client cannot be built or
\* no window is acceptable, and real otherwise.
C4_FetcherTotal ==
  FetchReturned =>
    /\ ~fout.exc
    /\ fout.real \in BOOLEAN
    /\ ~fout.real <=> (~fin.prov.construct \/ NoneAcceptable(fin.prov))
    /\ ~fout.real <=> fout.timeframe = DemoLabel

\* C4 witness: every window was rejected, one of them for an all-zero series.
C4_Witness ==
  /\ FetchReturned
  /\ fin.prov.construct
  /\ fin.prov.windows = <<"zero", "nocol", "empty">>
  /\ ~fout.real
  /\ fout.timeframe = DemoLabel

\* C5: the windows are tried in the order of `timeframes`; the label is that of
\* the first acceptable one, earlier failures do not stop later windows, and
\* nothing is queried after the accepted window.
C5_FirstAcceptableWindow ==
  (FetchReturned /\ fin.prov.construct) =>
    LET k == FirstAcceptable(fin.prov)
    IN  /\ fout.queried = SubSeq(timeframes, 1, IF k > 3 THEN 3 ELSE k)
        /\ k <= 3 => fout.timeframe = timeframes[k] /\ fout.real
        /\ (fin.prov.windows[1] = "ok") =>
             fout.timeframe = "now 7-d" /\ Len(fout.queried) = 1

\* C5 witness: the first window raised, the second was accepted, the third
\* was never queried.
C5_Witness ==
  /\ FetchReturned
  /\ fin.prov.construct
  /\ fin.prov.windows = <<"raise", "ok", "ok">>
  /\ fout.timeframe = "today 1-m"
  /\ fout.queried = <<"now 7-d", "today 1-m">>

\* C6: a POST whose keyword is empty or whitespace-only is answered in the
\* step that receives it, with the validation message (index) or status 400
\* (analyze): no wait, no fetch, no chart write, timestamp unchanged.
C6_BlankKeywordRejected ==
  [][\A w \in Workers :
       (pc[w] = "idle" /\ pc'[w] # "idle"
          /\ req'[w].handler \in {"index", "analyze"} /\ IsBlank(req'[w].keyword))
       => /\ pc'[w] = "done"
          /\ ~fetched'[w].called
          /\ UNCHANGED <<clock, last_request_time, chart>>
          /\ resp'[w].body = NoBody
          /\ req'[w].handler = "index" =>
               resp'[w].error = "Please enter a keyword to search."
          /\ req'[w].handler = "analyze" =>
               resp'[w].status = 400 /\ resp'[w].error # ""]_vars

\* C6 witness: a whitespace-only keyword has been rejected by analyze.
C6_Witness ==
  \E w \in Workers :
    /\ pc[w] = "done"
    /\ req[w] = [handler |-> "analyze", keyword |-> <<" ", " ">>]
    /\ resp[w].status = 400
    /\ last_request_time = 0
    /\ ~chart.written

\* C7: an analyze request ends in exactly one of: 400 iff the keyword is
\* missing; 404 iff the fetched series is empty or lacks the keyword column;
\* 500 iff the pipeline raised; otherwise 200 with is_demo_data true exactly
\* for synthetic data and as many dates as values (91 for synthetic data).
C7_AnalyzeOutcomes ==
  \A w \in Workers :
    (pc[w] = "done" /\ req[w].handler = "analyze") =>
      LET st == resp[w].status
          f == fetched[w]
      IN  /\ st \in {200, 400, 404, 500}
          /\ st = 400 <=> IsBlank(req[w].keyword)
          /\ st = 404 <=> (f.called /\ (f.empty \/ ~f.hascol))
          /\ st = 500 <=> f.exc # "none"
          /\ st # 200 => resp[w].error # "" /\ resp[w].body = NoBody
          /\ st = 200 =>
               /\ resp[w].error = ""
               /\ resp[w].body.kind = "json"
               /\ resp[w].body.is_demo_data <=> ~f.real
               /\ Len(resp[w].body.dates) = Len(resp[w].body.values)
               /\ Len(resp[w].body.dates) = f.rows
               /\ resp[w].body.is_demo_data => Len(resp[w].body.dates) = DemoDays + 1
               /\ resp[w].body.is_demo_data <=> resp[w].body.timeframe_used = DemoLabel

\* C7 witness: analyze answered 200 with 91 synthetic date/value pairs.
C7_Witness ==
  \E w \in Workers :
    /\ pc[w] = "done"
    /\ req[w].handler = "analyze"
    /\ resp[w].status = 200
    /\ resp[w].body.is_demo_data
    /\ Len(resp[w].body.values) = 91

C9_DemoSeriesShape ==
  DemoReturned =>
    LET data == fout.data
    IN  /\ NRows(data) = 91
        /\ \A i \in 1..(NRows(data) - 1) :
             data.index[i + 1] = data.index[i] + SecondsPerDay
        /\ fin.keyword \in Columns(data)
        /\ Len(data.cols[fin.keyword]) = 91
        /\ \A i \in 1..91 :
             LET v == data.cols[fin.keyword][i]
             IN  /\ \E r \in -10..10 : v = Max(10, base_trend[((i - 1) % 15) + 1] + r)
                 /\ v >= 40
                 /\ v <= 100

\* C10: for every non-empty keyword the fetched series is non-empty and holds
\* the keyword's column, so no handler reaches its no-data branch and the
\* chart is written whenever the pipeline raises nothing.
C10_NoDataBranchUnreachable ==
  \A w \in Workers :
    (pc[w] = "done" /\ fetched[w].called) =>
      /\ ~fetched[w].empty
      /\ fetched[w].hascol
      /\ resp[w].error # MsgNoData
      /\ resp[w].status # 404
      /\ fetched[w].exc = "none" => fetched[w].charted

====
